---- MODULE Spec2Model ----
(***************************************************************************)
(* Model of the PTB scoring apps: xgboost-api/app.py (fetch, strict        *)
(* feature check, scoring, tiering, "Clear & Upload", dashboard read-back) *)
(* and xgboost-api/dashboard.py (fetch, "Upload to Cosmos DB").            *)
(*                                                                         *)
(* A Streamlit script is re-executed top to bottom on every interaction;   *)
(* one execution is a "run".  pc is the position of app.py's run, dpc the  *)
(* position of dashboard.py's run.  Probabilities are fixed-point numbers  *)
(* with ProbaScale units per 1.0; scores are in score points.              *)
(***************************************************************************)
EXTENDS Integers, Sequences, FiniteSets, TLC

VARIABLES
    inputStore,    \* INPUT_CONTAINER: sequence of records, in read_all_items order
    outputStore,   \* OUTPUT_CONTAINER: set of records
    nextUuid,      \* number of uuid4 values drawn so far
    modelCache,    \* st.cache_resource of load_model: TRUE once the model is loaded
    fetchCache,    \* st.cache_data of fetch_data: <<>> or <<rows>>
    dashCache,     \* st.cache_data of load_dashboard_data: <<>> or <<items>>
    pc,            \* position of the app.py run ("stopped": ended by a rerun)
    runs,          \* number of app.py runs started
    clicked,       \* this run was triggered by the "Clear & Upload" button
    df,            \* app.py's DataFrame: rows, columns, and the two columns
                   \* PTB_Score and Lead_Tier (<<>> when df has no such column)
    missing,       \* app.py's list of missing required columns (as a set)
    msgs,          \* messages shown by this app.py run, in order
    calls,         \* calls made to each external collaborator in this run
    failed,        \* collaborators that raised in this run
    aborted,       \* the run was ended by an exception nobody caught
    endedBy,       \* where that exception was raised ("" when there is none);
                   \* "rerun" when a rerun stopped the run
    stoppedAt,     \* the position at which a rerun stopped the run ("" if none)
    storeOps,      \* output-store operations of this run, in order
    storeBefore,   \* output store as it was when this run's button action began
    buttonOnScreen, \* the browser shows a "Clear & Upload" button
    writes,        \* every upsert made by an upload function
    dpc,           \* position of the dashboard.py session
    dashFetchCache, \* st.cache_data of dashboard.py's fetch_data: <<>> or <<df>>
    dashRow,       \* rows upload_to_cosmos has upserted so far
    score,         \* input of the stand-alone tier evaluation
    label          \* its result ("" before tier was applied)

vars == <<inputStore, outputStore, nextUuid, modelCache, fetchCache, dashCache,
          pc, runs, clicked, df, missing, msgs, calls, failed, aborted,
          endedBy, stoppedAt, storeOps, storeBefore, buttonOnScreen, writes, dpc,
          dashFetchCache, dashRow, score, label>>

storeVars == <<inputStore, outputStore, nextUuid, writes>>
appVars == <<modelCache, fetchCache, dashCache, pc, runs, clicked, df, missing,
             msgs, calls, failed, aborted, endedBy, stoppedAt, storeOps,
             storeBefore, buttonOnScreen>>
dashVars == <<dpc, dashFetchCache, dashRow>>
tierVars == <<score, label>>

----------------------------------------------------------------------------
(* Bounds of the model *)

MaxRecords == 2
MaxRuns == 2
MaxScore == 120

(* Fixed-point scale of a probability: p stands for p / ProbaScale *)
ProbaScale == 100

----------------------------------------------------------------------------
(* app.py: required features, line 95 *)

required ==
    << "Age", "Gender", "Annual Income", "Income Bracket", "Marital Status",
       "Employment Status", "Region", "Urban/Rural Flag", "State", "ZIP Code",
       "Plan Preference Type", "Web Form Completion Rate", "Quote Requested",
       "Application Started", "Behavior Score", "Application Submitted",
       "Application Applied" >>

Range(s) == {s[i] : i \in 1..Len(s)}

RequiredSet == Range(required)

(* columns the dashboard section of app.py reads besides required ones
   and Lead_Tier: lines 155, 220, 257 *)
FunnelKeys == {"Policy Purchased", "Age Group", "Purchase Channel"}

(* The documents the input container may hold: the keys a document
   carries; p, what the loaded model answers for it (its positive-class
   probability, a function of the document's feature values); and the
   values it has under PTB_Score and Lead_Tier ("absent" without the
   key). *)
FullKeys == RequiredSet \cup {"id"}
InputKinds ==
    { [keys |-> FullKeys \cup FunnelKeys, p |-> 90,
       PTB_Score |-> "absent", Lead_Tier |-> "absent"],
      [keys |-> FullKeys \ {"ZIP Code"}, p |-> 49,
       PTB_Score |-> "absent", Lead_Tier |-> "absent"],
      [keys |-> FullKeys \ {"Age"}, p |-> 50,
       PTB_Score |-> "absent", Lead_Tier |-> "absent"],
      [keys |-> FullKeys \cup {"PTB_Score", "Lead_Tier"}, p |-> 75,
       PTB_Score |-> 10, Lead_Tier |-> "Bronze"] }

InputId(i) == <<"in", i>>
Uuid(k) == <<"uuid", k>>

InputItems(s) ==
    [i \in 1..Len(s) |->
        [id |-> InputId(i), keys |-> s[i].keys, p |-> s[i].p,
         PTB_Score |-> s[i].PTB_Score, Lead_Tier |-> s[i].Lead_Tier]]

Collaborators ==
    {"load_model", "fetch_data", "predict_proba", "clear_output_container",
     "upload_results", "load_dashboard_data"}

NoCalls == [c \in Collaborators |-> 0]

EmptyDf == [rows |-> <<>>, columns |-> {}, PTB_Score |-> <<>>, Lead_Tier |-> <<>>]

Columns(items) == UNION {items[i].keys : i \in 1..Len(items)}

(* pd.DataFrame(items): one row per item, columns are the union of the
   keys; a row without the key of a column has NaN there *)
DataFrame(items) ==
    [rows |-> items,
     columns |-> Columns(items),
     PTB_Score |->
        IF "PTB_Score" \in Columns(items)
        THEN [i \in 1..Len(items) |->
                 IF "PTB_Score" \in items[i].keys THEN items[i].PTB_Score ELSE "NaN"]
        ELSE <<>>,
     Lead_Tier |->
        IF "Lead_Tier" \in Columns(items)
        THEN [i \in 1..Len(items) |->
                 IF "Lead_Tier" \in items[i].keys THEN items[i].Lead_Tier ELSE "NaN"]
        ELSE <<>>]

(* mutant of DfEmpty: tests for None instead of emptiness *)
DfEmpty_NeverEmpty(d) == FALSE

(* df.empty *)
DfEmpty(d) == Len(d.rows) = 0 \/ d.columns = {}

(* app.py line 102 *)
MissingCols(d) == {required[i] : i \in {j \in 1..Len(required) : required[j] \notin d.columns}}

(* app.py line 109: proba * 100 *)
PTB_Score(p) == (p * 100) \div ProbaScale

(* mutant of tier: cutoffs compared with > instead of >= *)
tier_StrictCutoff(s) ==
    IF s > 90 THEN "Platinum"
    ELSE IF s > 75 THEN "Gold"
    ELSE IF s > 50 THEN "Silver"
    ELSE "Bronze"

(* app.py lines 111-119 *)
tier(s) ==
    IF s >= 90 THEN "Platinum"
    ELSE IF s >= 75 THEN "Gold"
    ELSE IF s >= 50 THEN "Silver"
    ELSE "Bronze"

Append1(q, c) == [q EXCEPT ![c] = @ + 1]

RECURSIVE SetToSeq(_)
SetToSeq(S) ==
    IF S = {} THEN <<>>
    ELSE LET x == CHOOSE y \in S : TRUE IN <<x>> \o SetToSeq(S \ {x})

Ids(S) == {r.id : r \in S}

----------------------------------------------------------------------------
(* A record left in the output container by an upload of an earlier
   session, written as lines 72-75 write it *)
EarlierRecord ==
    [id |-> Uuid(0),
     row |-> InputId(0),
     keys |-> FullKeys \cup {"PTB_Score", "Lead_Tier"},
     PTB_Score |-> PTB_Score(75),
     Lead_Tier |-> tier(PTB_Score(75))]

(* Initial state: the input container holds up to MaxRecords documents, the
   output container is empty or holds the record of an earlier session,
   nothing is cached, app.py and dashboard.py are about to run for the
   first time. *)

RunInit ==
    /\ df = EmptyDf
    /\ missing = {}
    /\ msgs = <<>>
    /\ calls = NoCalls
    /\ failed = {}
    /\ aborted = FALSE
    /\ endedBy = ""
    /\ stoppedAt = ""
    /\ storeOps = <<>>
    /\ storeBefore = {}

Init ==
    /\ \E n \in 0..MaxRecords :
         \E s \in [1..n -> InputKinds] :
            inputStore = InputItems(s)
    /\ outputStore \in {{}, {EarlierRecord}}
    /\ nextUuid = 0
    /\ modelCache = FALSE
    /\ fetchCache = <<>>
    /\ dashCache = <<>>
    /\ pc = "load_model"
    /\ runs = 1
    /\ clicked = FALSE
    /\ RunInit
    /\ buttonOnScreen = FALSE
    /\ writes = {}
    /\ dpc = "start"
    /\ dashFetchCache = <<>>
    /\ dashRow = 0
    /\ score = 0
    /\ label = ""

----------------------------------------------------------------------------
(* app.py *)

(* Streamlit starts a new run on every interaction, also while a run is
   executing: the running script is then stopped at its next st.* call,
   before the element is shown, by an exception that is no Exception (no
   handler of app.py catches it), and the new run begins.  The functions
   under st.cache_resource and st.cache_data (lines 9, 17, 137) are called
   inside a spinner, an st.* element at its entry and at its exit, also when
   the function raised.  Whether a rerun has been requested when the run
   gets to an st.* call: *)
RerunRequested == BOOLEAN

(* the run goes on to position next, or ends at the st.* call in front of it *)
Yield(stop, next) ==
    /\ pc' = IF stop THEN "stopped" ELSE next
    /\ endedBy' = IF stop THEN "rerun" ELSE endedBy
    /\ stoppedAt' = IF stop THEN pc ELSE stoppedAt

(* lines 9-14: model = load_model(), cached by st.cache_resource; the call
   is not inside any try, so an exception ends the run (and the page shows
   the exception only).  A rerun stops the run at the spinner's entry,
   before anything is loaded, or at its exit: after the model was loaded
   and cached, or in place of the exception of a failed load. *)
LoadModel ==
    /\ pc = "load_model"
    /\ \E stop \in RerunRequested :
         \/ /\ stop
            /\ Yield(TRUE, "fetch")
            /\ UNCHANGED <<modelCache, calls, failed, aborted, buttonOnScreen>>
         \/ /\ ~stop
            /\ modelCache
            /\ Yield(FALSE, "fetch")
            /\ UNCHANGED <<modelCache, calls, failed, aborted, buttonOnScreen>>
         \/ /\ ~modelCache
            /\ calls' = Append1(calls, "load_model")
            /\ \/ /\ modelCache' = TRUE
                  /\ Yield(stop, "fetch")
                  /\ UNCHANGED <<failed, aborted, buttonOnScreen>>
               \/ /\ failed' = failed \cup {"load_model"}
                  /\ aborted' = ~stop
                  /\ endedBy' = IF stop THEN "rerun" ELSE "load_model"
                  /\ stoppedAt' = IF stop THEN pc ELSE stoppedAt
                  /\ pc' = IF stop THEN "stopped" ELSE "done"
                  /\ buttonOnScreen' = IF stop THEN buttonOnScreen ELSE FALSE
                  /\ UNCHANGED modelCache
    /\ UNCHANGED <<fetchCache, dashCache, runs, clicked, df, missing, msgs,
                   storeOps, storeBefore>>
    /\ UNCHANGED <<storeVars, dashVars, tierVars>>

(* lines 17-33 and 83-86: df = fetch_data(), cached by st.cache_data; a
   failure is reported and an empty DataFrame is returned.  The cache keeps
   the returned value together with the message shown inside the function,
   and shows the message again on a cache hit.  A rerun stops the run
   before the call (st.title, line 83, or a spinner's entry); at the
   st.error of line 32, before fetch_data returns anything to cache; or
   after the call, at a spinner's exit, with the value cached and df not
   assigned. *)
FetchData ==
    /\ pc = "fetch"
    /\ \E stop \in RerunRequested :
         \/ /\ stop
            /\ Yield(TRUE, "check")
            /\ UNCHANGED <<df, msgs, fetchCache, calls, failed>>
         \/ /\ fetchCache # <<>>
            /\ df' = IF stop THEN df ELSE DataFrame(fetchCache[1].rows)
            /\ msgs' = msgs \o fetchCache[1].shown
            /\ Yield(stop, "check")
            /\ UNCHANGED <<fetchCache, calls, failed>>
         \/ /\ fetchCache = <<>>
            /\ calls' = Append1(calls, "fetch_data")
            /\ \/ /\ df' = IF stop THEN df ELSE DataFrame(inputStore)
                  /\ fetchCache' = << [rows |-> inputStore, shown |-> <<>>] >>
                  /\ Yield(stop, "check")
                  /\ UNCHANGED <<failed, msgs>>
               \/ /\ failed' = failed \cup {"fetch_data"}
                  /\ \E reported \in (IF stop THEN BOOLEAN ELSE {TRUE}) :
                       /\ msgs' = IF reported THEN Append(msgs, "fetch_failed") ELSE msgs
                       /\ fetchCache' =
                             IF reported
                             THEN << [rows |-> <<>>, shown |-> <<"fetch_failed">>] >>
                             ELSE fetchCache
                  /\ df' = IF stop THEN df ELSE EmptyDf
                  /\ Yield(stop, "check")
    /\ UNCHANGED <<modelCache, dashCache, runs, clicked, missing, aborted,
                   storeOps, storeBefore, buttonOnScreen>>
    /\ UNCHANGED <<storeVars, dashVars, tierVars>>

(* mutant of SelectFeatures: intersection mode, the columns that are absent
   are dropped from the projection and scoring goes on *)
SelectFeatures_Intersect ==
    /\ pc = "check"
    /\ IF DfEmpty(df)
       THEN /\ msgs' = Append(msgs, "no_data")
            /\ pc' = "dashboard"
       ELSE /\ pc' = "score"
            /\ UNCHANGED msgs
    /\ UNCHANGED <<modelCache, fetchCache, dashCache, runs, clicked, df, missing,
                   calls, failed, aborted, endedBy, stoppedAt, storeOps,
                   storeBefore, buttonOnScreen>>
    /\ UNCHANGED <<storeVars, dashVars, tierVars>>

(* lines 88-105: the empty check and the strict required-column check.  A
   rerun stops the run at st.warning (line 89), at st.subheader (line 91,
   before the columns are checked) or at st.error (line 104). *)
SelectFeatures ==
    /\ pc = "check"
    /\ \E stop \in RerunRequested :
         IF DfEmpty(df)
         THEN /\ msgs' = IF stop THEN msgs ELSE Append(msgs, "no_data")
              /\ Yield(stop, "dashboard")
              /\ UNCHANGED missing
         ELSE \/ /\ stop
                 /\ Yield(TRUE, "score")
                 /\ UNCHANGED <<missing, msgs>>
              \/ /\ missing' = MissingCols(df)
                 /\ IF missing' # {}
                    THEN /\ msgs' = IF stop THEN msgs ELSE Append(msgs, "missing_columns")
                         /\ Yield(stop, "dashboard")
                    ELSE /\ ~stop
                         /\ Yield(FALSE, "score")
                         /\ UNCHANGED msgs
    /\ UNCHANGED <<modelCache, fetchCache, dashCache, runs, clicked, df, calls,
                   failed, aborted, storeOps, storeBefore, buttonOnScreen>>
    /\ UNCHANGED <<storeVars, dashVars, tierVars>>

(* mutant of OnScoringFailure: a failed batch is given a default score *)
OnScoringFailure_Default(d) == [d EXCEPT !.PTB_Score = [i \in 1..Len(d.rows) |-> 0]]

(* mutant of AfterScoringFailed: only predict_proba is inside the try, the
   button is still reached *)
AfterScoringFailed_Continue == IF clicked THEN "clear" ELSE "dashboard"

(* lines 130-131: the handler of a failed scoring only reports; line 108
   raised before line 109 could assign anything, so df is as it was. *)
OnScoringFailure(d) == d

(* where the run goes after "Scoring failed": past the button, line 133 *)
AfterScoringFailed == "dashboard"

(* lines 106-126 and 130-131: projection, predict_proba, PTB_Score,
   Lead_Tier, the results table and the button with its test; any exception
   reports "Scoring failed".  A rerun stops the run at st.subheader (line
   123), before the button is drawn, or at st.error (line 131). *)
Score ==
    /\ pc = "score"
    /\ calls' = Append1(calls, "predict_proba")
    /\ \E stop \in RerunRequested :
         \/ /\ df' = [df EXCEPT
                        !.PTB_Score = [i \in 1..Len(df.rows) |-> PTB_Score(df.rows[i].p)],
                        !.Lead_Tier = [i \in 1..Len(df.rows) |-> tier(PTB_Score(df.rows[i].p))],
                        !.columns = @ \cup {"PTB_Score", "Lead_Tier"}]
            /\ Yield(stop, IF clicked THEN "clear" ELSE "dashboard")
            /\ buttonOnScreen' = IF stop THEN buttonOnScreen ELSE TRUE
            /\ UNCHANGED <<failed, msgs>>
         \/ /\ failed' = failed \cup {"predict_proba"}
            /\ msgs' = IF stop THEN msgs ELSE Append(msgs, "scoring_failed")
            /\ df' = OnScoringFailure(df)
            /\ Yield(stop, AfterScoringFailed)
            /\ UNCHANGED buttonOnScreen
    /\ storeBefore' = IF pc' = "clear" THEN outputStore ELSE storeBefore
    /\ UNCHANGED <<modelCache, fetchCache, dashCache, runs, clicked, missing,
                   aborted, storeOps>>
    /\ UNCHANGED <<storeVars, dashVars, tierVars>>

(* what container.delete_item leaves of the store, line 49 *)
Deleted(store, del) == store \ del

(* lines 36-54: clear_output_container(): read all items, delete them one by
   one; an exception (at the read or at any delete) stops the loop and is
   reported.  del is what was deleted before the loop ended (a delete that
   raised may have taken effect).  A rerun stops
   the run at st.info (line 51) or st.error (line 54), after the deletes:
   nothing is reported and upload_results is not called. *)
ClearOutputContainer ==
    /\ pc = "clear"
    /\ calls' = Append1(calls, "clear_output_container")
    /\ \E del \in SUBSET outputStore : \E stop \in RerunRequested :
         /\ outputStore' = Deleted(outputStore, del)
         /\ storeOps' = storeOps \o
                [i \in 1..Cardinality(del) |-> [op |-> "delete", id |-> SetToSeq(Ids(del))[i]]]
         /\ \/ /\ del = outputStore
               /\ msgs' = IF stop THEN msgs ELSE Append(msgs, "cleared")
               /\ UNCHANGED failed
            \/ /\ msgs' = IF stop THEN msgs ELSE Append(msgs, "clear_failed")
               /\ failed' = failed \cup {"clear_output_container"}
         /\ Yield(stop, "upload")
    /\ UNCHANGED <<modelCache, fetchCache, dashCache, runs, clicked, df, missing,
                   aborted, storeBefore, buttonOnScreen>>
    /\ UNCHANGED <<inputStore, nextUuid, writes, dashVars, tierVars>>

(* row.to_dict() of row i: a cell of a column the DataFrame does not have
   is not in the dict *)
Cell(col, i) == IF i \in DOMAIN col THEN col[i] ELSE "absent"

(* lines 73-74: the record written for row i, under the k-th uuid4 *)
OutRecord(d, i, k) ==
    [id |-> Uuid(k),
     row |-> d.rows[i].id,
     keys |-> d.columns,
     PTB_Score |-> Cell(d.PTB_Score, i),
     Lead_Tier |-> Cell(d.Lead_Tier, i)]

(* mutant of UploadFailureMsg: upload_results has no try of its own and the
   exception reaches the handler of line 130 *)
UploadFailureMsg_Scoring == "scoring_failed"

(* line 80: how a failed upload is reported *)
UploadFailureMsg == "upload_failed"

(* lines 57-80: upload_results(df): create the container if absent, then
   upsert every row under a new uuid4; an exception stops the loop and is
   reported.  k rows were upserted before the function ended; when an upsert
   raised, its uuid4 had already been drawn, and its request may have taken
   effect all the same ("upsert_failed_stored": the k-th row is the one
   that raised).  A rerun stops the run at st.success (line 77) or st.error
   (line 80), after the upserts. *)
UploadResults ==
    /\ pc = "upload"
    /\ calls' = Append1(calls, "upload_results")
    /\ \E k \in 0..Len(df.rows) :
       \E outcome \in {"ok", "create_failed", "upsert_failed", "upsert_failed_stored"} :
       \E stop \in RerunRequested :
         /\ outcome = "ok" => k = Len(df.rows)
         /\ outcome = "create_failed" => k = 0
         /\ outcome = "upsert_failed" => k < Len(df.rows)
         /\ outcome = "upsert_failed_stored" => k >= 1
         /\ outputStore' = outputStore \cup {OutRecord(df, i, nextUuid + i) : i \in 1..k}
         /\ nextUuid' = nextUuid + (IF outcome = "upsert_failed" THEN k + 1 ELSE k)
         /\ storeOps' = storeOps \o
                [i \in 1..k |-> [op |-> "upsert", id |-> Uuid(nextUuid + i)]]
         /\ writes' = writes \cup
                {[fn |-> "upload_results",
                  id |-> Uuid(nextUuid + i),
                  src |-> df.rows[i].id,
                  existed |-> Uuid(nextUuid + i) \in Ids(outputStore)] : i \in 1..k}
         /\ IF outcome = "ok"
            THEN /\ msgs' = IF stop THEN msgs ELSE Append(msgs, "uploaded")
                 /\ UNCHANGED failed
            ELSE /\ msgs' = IF stop THEN msgs ELSE Append(msgs, UploadFailureMsg)
                 /\ failed' = failed \cup {"upload_results"}
         /\ Yield(stop, "dashboard")
    /\ UNCHANGED <<modelCache, fetchCache, dashCache, runs, clicked, df, missing,
                   aborted, storeBefore, buttonOnScreen>>
    /\ UNCHANGED <<inputStore, dashVars, tierVars>>

(* lines 155-257: the columns the dashboard section reads from a non-empty
   dash_df; a column that is not there raises (KeyError at line 155, 160,
   164, 168, 208, 220, 227, 237, 240; ValueError in px.histogram). *)
DashboardColumns ==
    {"Policy Purchased", "Application Started", "Application Submitted",
     "State", "Lead_Tier", "Income Bracket", "Age Group", "Employment Status",
     "Gender", "Purchase Channel"}

(* lines 153-265 for dash_df made of items: "none" (the warning of line
   265), "drawn", or "raised" *)
DashboardSection(items) ==
    LET cols == UNION {r.keys : r \in items} IN
    IF items = {} THEN "none"
    ELSE IF /\ DashboardColumns \subseteq cols
            /\ ("Quote Requested (website)" \in cols \/ "Quote Requested" \in cols)
         THEN "drawn"
         ELSE "raised"

(* line 126: the run drew the "Clear & Upload" button: it scored *)
ButtonShown == calls["predict_proba"] = 1 /\ "predict_proba" \notin failed

(* lines 133-265: the heading, dash_df = load_dashboard_data(), cached by
   st.cache_data, then the dashboard section.  Neither is inside a try: an
   exception of the read, or of the section when dash_df lacks a column,
   ends the run.  A rerun stops the run at st.markdown (line 134); at the
   spinner's entry, before the read; at its exit, after the read or in
   place of the exception of a failed read; or at an st.* call of the
   section.  A run that ends by itself leaves only its own elements on the
   screen; when a rerun stops it, the button an earlier run drew may have
   been replaced by then (the elements sent from line 134 on) or may still
   be there (a spinner shown only on a cache miss sends fewer elements in
   front of it). *)
LoadDashboardData ==
    /\ pc = "dashboard"
    /\ \/ /\ Yield(TRUE, "done")
          /\ buttonOnScreen' \in {buttonOnScreen, ButtonShown}
          /\ UNCHANGED <<dashCache, calls, failed, msgs, aborted>>
       \/ \E outcome \in {"hit", "read", "read_failed"} : \E stop \in RerunRequested :
            /\ outcome = "hit" <=> dashCache # <<>>
            /\ calls' = IF outcome = "hit" THEN calls
                        ELSE Append1(calls, "load_dashboard_data")
            /\ dashCache' = IF outcome = "read" THEN <<outputStore>> ELSE dashCache
            /\ buttonOnScreen' \in (IF stop THEN {buttonOnScreen, ButtonShown}
                                     ELSE {ButtonShown})
            /\ pc' = IF stop THEN "stopped" ELSE "done"
            /\ stoppedAt' = IF stop THEN pc ELSE stoppedAt
            /\ IF outcome = "read_failed"
               THEN /\ failed' = failed \cup {"load_dashboard_data"}
                    /\ aborted' = ~stop
                    /\ endedBy' = IF stop THEN "rerun" ELSE "load_dashboard_data"
                    /\ UNCHANGED msgs
               ELSE /\ UNCHANGED failed
                    /\ msgs' = IF ~stop /\ DashboardSection(dashCache'[1]) = "none"
                               THEN Append(msgs, "no_scored_data") ELSE msgs
                    /\ aborted' = (~stop /\ DashboardSection(dashCache'[1]) = "raised")
                    /\ endedBy' = IF stop THEN "rerun"
                                  ELSE IF aborted' THEN "dashboard_section" ELSE ""
    /\ UNCHANGED <<modelCache, fetchCache, runs, clicked, df, missing, storeOps,
                   storeBefore>>
    /\ UNCHANGED <<storeVars, dashVars, tierVars>>

(* The next run of the script: after the run before has ended, or in place
   of a run a rerun has stopped.  The button can be clicked while it is on
   the screen: a run drew it (line 126) and no later run has got past its
   place without drawing it. *)
NewRun ==
    /\ pc \in {"done", "stopped"}
    /\ runs < MaxRuns
    /\ runs' = runs + 1
    /\ clicked' \in (IF buttonOnScreen THEN BOOLEAN ELSE {FALSE})
    /\ pc' = "load_model"
    /\ df' = EmptyDf
    /\ missing' = {}
    /\ msgs' = <<>>
    /\ calls' = NoCalls
    /\ failed' = {}
    /\ aborted' = FALSE
    /\ endedBy' = ""
    /\ stoppedAt' = ""
    /\ storeOps' = <<>>
    /\ storeBefore' = {}
    /\ UNCHANGED <<modelCache, fetchCache, dashCache, buttonOnScreen>>
    /\ UNCHANGED <<storeVars, dashVars, tierVars>>

----------------------------------------------------------------------------
(* dashboard.py *)

(* lines 17-27 and 42: df = fetch_data(); a failure gives an empty
   DataFrame *)
DashFetched(ok) == IF ok THEN DataFrame(inputStore) ELSE EmptyDf

(* lines 44-86: the button is shown only for a non-empty DataFrame that has
   both score columns *)
DashButtonShown(d) == ~DfEmpty(d) /\ {"PTB_Score", "Lead_Tier"} \subseteq d.columns

(* line 35: df.to_dict(orient="records") gives every row all the columns,
   the score columns with the row's cell *)
DashRecord(d, i) ==
    [d.rows[i] EXCEPT !.keys = d.columns,
                      !.PTB_Score = d.PTB_Score[i],
                      !.Lead_Tier = d.Lead_Tier[i]]

(* what container.upsert_item(rec) makes of the container: the document
   with rec's id is replaced (a record with no such document is added) *)
Upserted(items, rec) ==
    IF \E j \in 1..Len(items) : items[j].id = rec.id
    THEN [j \in 1..Len(items) |-> IF items[j].id = rec.id THEN rec ELSE items[j]]
    ELSE Append(items, rec)

(* line 36: container.upsert_item(row) for row i of d *)
UpsertItem(d, i) ==
    /\ inputStore' = Upserted(inputStore, DashRecord(d, i))
    /\ writes' = writes \cup
           {[fn |-> "upload_to_cosmos",
             id |-> DashRecord(d, i).id,
             src |-> d.rows[i].id,
             existed |-> \E j \in 1..Len(inputStore) :
                            inputStore[j].id = DashRecord(d, i).id]}

(* lines 42-86, first run of a session: the data is fetched (and cached by
   st.cache_data, line 17) and shown, with the button when both score
   columns are there; the script ends. *)
DashboardRun ==
    /\ dpc = "start"
    /\ \E ok \in BOOLEAN :
         /\ dashFetchCache' = <<DashFetched(ok)>>
         /\ dpc' = IF DashButtonShown(DashFetched(ok)) THEN "button" ELSE "done"
    /\ UNCHANGED <<dashRow, storeVars, appVars, tierVars>>

(* lines 42-86, the run a click on "Upload to Cosmos DB" starts:
   fetch_data() is answered by the cache, st.button is True and
   upload_to_cosmos is entered with the cached rows. *)
DashboardClickRun ==
    /\ dpc = "button"
    /\ dpc' = "upload"
    /\ dashRow' = 0
    /\ UNCHANGED <<dashFetchCache, storeVars, appVars, tierVars>>

(* lines 30-39, one turn of the loop of upload_to_cosmos: one request to the
   container per row; a request that raises ends the loop (line 38), the
   last row ends the function and the run. *)
UploadToCosmos ==
    /\ dpc = "upload"
    /\ \/ /\ UpsertItem(dashFetchCache[1], dashRow + 1)
          /\ dashRow' = IF dashRow + 1 = Len(dashFetchCache[1].rows) THEN 0 ELSE dashRow + 1
          /\ dpc' = IF dashRow + 1 = Len(dashFetchCache[1].rows) THEN "done" ELSE "upload"
       \/ /\ dashRow' = 0
          /\ dpc' = "done"
          /\ UNCHANGED <<inputStore, writes>>
    /\ UNCHANGED <<dashFetchCache, outputStore, nextUuid, appVars, tierVars>>

(* the input container after upload_to_cosmos has upserted the first k
   rows of what dashboard.py fetched from items *)
RECURSIVE Rewritten(_, _)
Rewritten(items, k) ==
    IF k = 0 THEN items
    ELSE Upserted(Rewritten(items, k - 1), DashRecord(DataFrame(items), k))

(* how many rows a dashboard.py session can have rewritten: none when its
   button is not shown *)
Rewritable(items) == IF DashButtonShown(DataFrame(items)) THEN 0..Len(items) ELSE {0}

----------------------------------------------------------------------------
Next ==
    \/ LoadModel
    \/ FetchData
    \/ SelectFeatures
    \/ Score
    \/ ClearOutputContainer
    \/ UploadResults
    \/ LoadDashboardData
    \/ NewRun
    \/ DashboardRun
    \/ DashboardClickRun
    \/ UploadToCosmos

Spec == Init /\ [][Next]_vars

----------------------------------------------------------------------------
(* app.py as a session of its own.  It reads the input container once (the
   fetch is cached), so what a dashboard.py session does to the container
   reaches app.py only as the content it fetches: the container starts as a
   dashboard.py session may have left it. *)

AppInit ==
    /\ \E n \in 0..MaxRecords :
         \E s \in [1..n -> InputKinds] :
            \E k \in Rewritable(InputItems(s)) :
               inputStore = Rewritten(InputItems(s), k)
    /\ outputStore \in {{}, {EarlierRecord}}
    /\ nextUuid = 0
    /\ modelCache = FALSE
    /\ fetchCache = <<>>
    /\ dashCache = <<>>
    /\ pc = "load_model"
    /\ runs = 1
    /\ clicked = FALSE
    /\ RunInit
    /\ buttonOnScreen = FALSE
    /\ writes = {}
    /\ dpc = "done"
    /\ dashFetchCache = <<>>
    /\ dashRow = 0
    /\ score = 0
    /\ label = ""

AppNext ==
    \/ LoadModel
    \/ FetchData
    \/ SelectFeatures
    \/ Score
    \/ ClearOutputContainer
    \/ UploadResults
    \/ LoadDashboardData
    \/ NewRun

AppSpec == AppInit /\ [][AppNext]_vars

----------------------------------------------------------------------------
(* The tier function on its own: every score of the domain, then tier *)

Scores == (0 - MaxScore)..MaxScore

TierInit ==
    /\ inputStore = <<>>
    /\ outputStore = {}
    /\ nextUuid = 0
    /\ modelCache = FALSE
    /\ fetchCache = <<>>
    /\ dashCache = <<>>
    /\ pc = "done"
    /\ runs = MaxRuns
    /\ clicked = FALSE
    /\ RunInit
    /\ buttonOnScreen = FALSE
    /\ writes = {}
    /\ dpc = "done"
    /\ dashFetchCache = <<>>
    /\ dashRow = 0
    /\ score \in Scores
    /\ label = ""

ApplyTier ==
    /\ label = ""
    /\ label' = tier(score)
    /\ UNCHANGED <<score, storeVars, appVars, dashVars>>

TierNext == ApplyTier

TierSpec == TierInit /\ [][TierNext]_vars

----------------------------------------------------------------------------
(* Properties *)

Labels == {"Platinum", "Gold", "Silver", "Bronze"}

Count(q, m) == Cardinality({i \in 1..Len(q) : q[i] = m})

Shown(m) == \E i \in 1..Len(msgs) : msgs[i] = m

(* positions of a run at which the checks of lines 88-104 are behind it *)
AfterCheck == {"score", "clear", "upload", "dashboard", "done"}

(* positions of a run at which the try of lines 106-131 is behind it *)
AfterButton == {"dashboard", "done"}

(* the run is, or was when a rerun stopped it, at one of the positions P *)
Past(P) == pc \in P \/ (pc = "stopped" /\ stoppedAt \in P)

(* the run fetched and went through the checks of lines 88-104: neither
   load_model nor a rerun ended it before *)
Fetched == Past(AfterCheck) /\ "load_model" \notin failed

(* columns carried by at least one fetched record *)
CarriedBy(d) == UNION {d.rows[i].keys : i \in 1..Len(d.rows)}

(* this run called neither clear_output_container nor upload_results and
   made no delete and no upsert *)
StoreUntouched ==
    /\ calls["clear_output_container"] = 0
    /\ calls["upload_results"] = 0
    /\ storeOps = <<>>

(* every row of d has the score and the tier lines 109 and 121 give it *)
Enriched(d) ==
    /\ Len(d.PTB_Score) = Len(d.rows)
    /\ Len(d.Lead_Tier) = Len(d.rows)
    /\ \A i \in 1..Len(d.rows) :
         /\ d.PTB_Score[i] = PTB_Score(d.rows[i].p)
         /\ d.Lead_Tier[i] = tier(d.PTB_Score[i])

(* C1: in percentage mode tier gives exactly one of the four labels,
   Platinum iff s >= 90, Gold iff 75 <= s < 90, Silver iff 50 <= s < 75,
   Bronze iff s < 50; each cutoff belongs to the higher tier. *)
C1_TierPartition ==
    label # "" =>
        /\ label \in Labels
        /\ (label = "Platinum") <=> (score >= 90)
        /\ (label = "Gold") <=> (75 <= score /\ score < 90)
        /\ (label = "Silver") <=> (50 <= score /\ score < 75)
        /\ (label = "Bronze") <=> (score < 50)

C1_Witness == score = 75 /\ label = "Gold"

(* the DataFrame is as fetch_data returned it: the run gave no record a
   PTB_Score or a Lead_Tier *)
AsFetched(d) == fetchCache # <<>> /\ d = DataFrame(fetchCache[1].rows)

(* C2: a non-empty record set in which no record carries required column X:
   once the run is past the column check X is in its list of missing
   columns and the list is reported; at no position of the run (also of one
   a rerun stopped) has the model been invoked, has a record received
   PTB_Score or Lead_Tier, or has the output store been cleared or
   written. *)
C2_MissingColumnSkipsScoring ==
    \A X \in RequiredSet \ CarriedBy(df) :
        ~DfEmpty(df) =>
            /\ Fetched => (X \in missing /\ Shown("missing_columns"))
            /\ calls["predict_proba"] = 0
            /\ AsFetched(df)
            /\ StoreUntouched

C2_Witness ==
    /\ pc = "done"
    /\ Len(df.rows) >= 2
    /\ "ZIP Code" \notin CarriedBy(df)
    /\ missing = {"ZIP Code"}

(* C3: a record set in which only some records lack required column X:
   X is reported missing and the model is not invoked for any record. *)
C3_PartlyMissingColumnSkipsScoring ==
    \A X \in RequiredSet :
        ( /\ Fetched
          /\ \E i \in 1..Len(df.rows) : X \notin df.rows[i].keys
          /\ \E i \in 1..Len(df.rows) : X \in df.rows[i].keys ) =>
            /\ X \in missing
            /\ calls["predict_proba"] = 0

(* C4: an empty fetched record set (also when the fetch failed): once the
   run is past the empty check the "no data" signal has been given; at no
   position of the run has the model been invoked or the output store been
   cleared or written. *)
C4_EmptyInputShortCircuits ==
    Len(df.rows) = 0 =>
        /\ Fetched => Shown("no_data")
        /\ calls["predict_proba"] = 0
        /\ StoreUntouched

C4_Witness ==
    /\ pc = "done"
    /\ "fetch_data" \in failed
    /\ Len(inputStore) > 0
    /\ Shown("no_data")

(* C5 as stated: a failed model invocation is reported as one scoring
   failure (never more, and by the time the run is past the handler of line
   130), no record of the batch carries PTB_Score or Lead_Tier
   afterwards, the output store is neither cleared nor written. *)
C5_ScoringFailureLeavesNoScores ==
    "predict_proba" \in failed =>
        /\ Count(msgs, "scoring_failed") <= 1
        /\ Past(AfterButton) => Count(msgs, "scoring_failed") = 1
        /\ "PTB_Score" \notin df.columns /\ df.PTB_Score = <<>>
        /\ "Lead_Tier" \notin df.columns /\ df.Lead_Tier = <<>>
        /\ StoreUntouched

(* C5 as amended: a failed model invocation is reported as one scoring
   failure (never more, and by the time the run is past the handler of line
   130), every record of the batch is as it was fetched (the run gives
   none a PTB_Score or Lead_Tier), the output store is neither cleared nor
   written. *)
C5_ScoringFailureIsAtomic ==
    "predict_proba" \in failed =>
        /\ Count(msgs, "scoring_failed") <= 1
        /\ Past(AfterButton) => Count(msgs, "scoring_failed") = 1
        /\ AsFetched(df)
        /\ StoreUntouched

C5_Witness ==
    /\ pc = "done"
    /\ "predict_proba" \in failed
    /\ clicked
    /\ Len(df.rows) >= 2
    /\ \E i \in 1..Len(df.rows) : "PTB_Score" \in df.rows[i].keys
    /\ \E i \in 1..Len(df.rows) : "PTB_Score" \notin df.rows[i].keys

(* C6: a rejected write in upload_results is reported as one upload
   failure (never more, and by the time the run is past upload_results) and
   not as a scoring failure, scoring had succeeded, and the run
   still holds every record with its PTB_Score and Lead_Tier. *)
C6_UploadFailureKeepsResults ==
    "upload_results" \in failed =>
        /\ Count(msgs, "upload_failed") <= 1
        /\ Past(AfterButton) => Count(msgs, "upload_failed") = 1
        /\ ~Shown("scoring_failed")
        /\ ~Shown("uploaded")
        /\ calls["predict_proba"] = 1
        /\ "predict_proba" \notin failed
        /\ ~DfEmpty(df)
        /\ Enriched(df)
        /\ fetchCache # <<>> /\ df.rows = fetchCache[1].rows

C6_Witness ==
    /\ pc = "done"
    /\ "upload_results" \in failed
    /\ Len(df.rows) >= 2
    /\ \E i \in 1..Len(storeOps) : storeOps[i].op = "upsert"

(* C7: every record an upload function writes is written under an
   identifier generated at write time, not the input record's; all written
   identifiers are pairwise distinct and no write replaces a record already
   in the store. *)
C7_FreshIdentifiers ==
    \A w \in writes :
        /\ w.id # w.src
        /\ ~w.existed
        /\ \A v \in writes : v # w => v.id # w.id

(* this run's output set: one record per row, with its score and tier *)
StoreIsThisRunsOutput ==
    /\ Enriched(df)
    /\ Cardinality(outputStore) = Len(df.rows)
    /\ \A i \in 1..Len(df.rows) :
         \E r \in outputStore :
            /\ r.row = df.rows[i].id
            /\ r.PTB_Score = df.PTB_Score[i]
            /\ r.Lead_Tier = df.Lead_Tier[i]
    /\ Ids(outputStore) \cap Ids(storeBefore) = {}

(* C8: after a "Clear & Upload" in which upload_results reports success
   the output store holds exactly this run's records and none of those it
   held before, whatever clear_output_container did. *)
C8_UploadSuccessReplacesStore ==
    Shown("uploaded") => StoreIsThisRunsOutput

(* how the failure of collaborator c is reported *)
FailureMsg(c) ==
    CASE c = "fetch_data" -> "fetch_failed"
      [] c = "predict_proba" -> "scoring_failed"
      [] c = "clear_output_container" -> "clear_failed"
      [] c = "upload_results" -> "upload_failed"
      [] OTHER -> "none"

(* C9: the failure of any external collaborator is caught and reported, is
   not retried, and never ends the run early. *)
C9_FailuresNeverAbortTheRun ==
    \A c \in failed :
        /\ Shown(FailureMsg(c))
        /\ calls[c] = 1
        /\ endedBy # c

(* the steps that must lie behind any change of the output store *)
ReadyToStore ==
    /\ ~DfEmpty(df)
    /\ missing = {}
    /\ MissingCols(df) = {}
    /\ calls["predict_proba"] = 1
    /\ "predict_proba" \notin failed
    /\ Enriched(df)
    /\ clicked

(* C10: the output store is changed only after a non-empty input, no
   missing column, a fully scored and tiered batch and a click on "Clear &
   Upload"; and every delete of the run comes before its first upsert, so
   no record uploaded by the run is deleted by it. *)
C10_StoreChangesOnlyAfterScoring ==
    /\ [][outputStore' # outputStore => (ReadyToStore /\ ReadyToStore')]_vars
    /\ []((calls["clear_output_container"] > 0 \/ calls["upload_results"] > 0
              \/ storeOps # <<>>) => ReadyToStore)
    /\ [](\A i, j \in 1..Len(storeOps) :
             (storeOps[i].op = "upsert" /\ storeOps[j].op = "delete") =>
                 /\ j < i
                 /\ storeOps[i].id # storeOps[j].id)

C10_Witness ==
    /\ pc = "done"
    /\ \E i, j \in 1..Len(storeOps) :
          i < j /\ storeOps[i].op = "delete" /\ storeOps[j].op = "upsert"

====
